---- MODULE Spec2Model ----
(***************************************************************************)
(* tdx-gcp-rtmr: the TDX quote inspector (main.go) and the RTMR[1] replay   *)
(* script.  One run of either tool is a behaviour: `tool` says which one,   *)
(* `pc` is the position in its code, `out` and `calls` record what it       *)
(* printed and which library calls it made, in order.                       *)
(*                                                                         *)
(* Library calls whose code is outside the repository (proto.Unmarshal,     *)
(* abi.QuoteToProto, verify.RawTdxQuote, IsOnCurve, ecdsa.Verify, the ABI   *)
(* encoders) are modelled by their result, drawn when the call is made.     *)
(***************************************************************************)
EXTENDS Integers, Sequences, FiniteSets, TLC

VARIABLES
    tool,        \* "inspector" (main.go) or "replay" (the shell script)
    pc,          \* position in the running tool
    argc,        \* len(os.Args)
    quoteData,   \* the bytes os.ReadFile returned: [len, pat], byte i is ByteAt(quoteData, i)
    quote,       \* the decoded tdx.QuoteV4 (EmptyQuote before decoding)
    tdReport,    \* the *TDReport handed to printRTMRValues
    out,         \* lines printed so far, as <<tag, index, bytes>>
    calls,       \* library / function calls made so far, as <<name, ok>>
    reads,       \* raw path: the memory ranges <<lo, hi>> read through tdReport
    exitCode,    \* exit status, meaningful once pc = "exited"
    kernelFile,  \* replay: content of the kernel image
    initrdFile,  \* replay: content of the initrd image
    cmdlineFile, \* replay: content of /proc/cmdline
    found,       \* replay: both KERNEL and INITRD are regular files
    kernel,      \* replay: python variable kernel
    initrd,      \* replay: python variable initrd
    cmdline,     \* replay: python variable cmdline
    rtmr         \* replay: python variable rtmr

vars == <<tool, pc, argc, quoteData, quote, tdReport, out, calls, reads, exitCode,
          kernelFile, initrdFile, cmdlineFile, found, kernel, initrd, cmdline, rtmr>>

inspectorVars == <<argc, quoteData, quote, tdReport, calls, reads>>
replayVars == <<kernelFile, initrdFile, cmdlineFile, found, kernel, initrd, cmdline, rtmr>>

(***************************************************************************)
(* Bounds of the model.                                                     *)
(***************************************************************************)
\* Bytes of a raw quote that follow the last byte the TDReport struct covers.
MaxTail == 1
\* Longest /proc/cmdline content.
MaxFileLen == 2
\* Longest kernel / initrd image content.
MaxImageLen == 1
\* Largest len(os.Args) tried.
MaxArgc == 3

(***************************************************************************)
(* Bytes.                                                                   *)
(***************************************************************************)
Zeros(n) == [i \in 1..n |-> 0]

\* Go's copy(dst[:], src): min(len(dst), len(src)) bytes, the rest of dst kept.
Copy(dst, src) == [i \in 1..Len(dst) |-> IF i <= Len(src) THEN src[i] ELSE dst[i]]

\* fmt's %x of a byte slice: two hex digits per byte, high nibble first.
Hex(b) ==
    [k \in 1..(2 * Len(b)) |->
        IF k % 2 = 1 THEN b[(k + 1) \div 2] \div 16 ELSE b[k \div 2] % 16]

(***************************************************************************)
(* type TDReport struct: the fields in declaration order with their sizes.  *)
(* All fields are byte arrays, so Go lays them out without padding.         *)
(***************************************************************************)
TDReportFields ==
    << <<"ReportType", 4>>, <<"Reserved1", 12>>, <<"CpuSvn", 16>>,
       <<"TeeTcbInfoHash", 48>>, <<"TeeInfoHash", 48>>, <<"ReportData", 64>>,
       <<"Reserved2", 32>>, <<"MacStruct", 256>>, <<"TeeTcbSvn", 16>>,
       <<"MrSeam", 48>>, <<"MrSignerSeam", 48>>, <<"SeamAttributes", 8>>,
       <<"TdAttributes", 8>>, <<"Xfam", 8>>, <<"MrTd", 48>>,
       <<"MrConfigId", 48>>, <<"MrOwner", 48>>, <<"MrOwnerConfig", 48>>,
       <<"Rtmr0", 48>>, <<"Rtmr1", 48>>, <<"Rtmr2", 48>>, <<"Rtmr3", 48>>,
       <<"ServTdHash", 48>> >>

FieldNames == {TDReportFields[i][1] : i \in 1..Len(TDReportFields)}

FieldIndex(f) == CHOOSE i \in 1..Len(TDReportFields) : TDReportFields[i][1] = f

FieldSize(f) == TDReportFields[FieldIndex(f)][2]

RECURSIVE SizeOfFirst(_)
SizeOfFirst(n) == IF n = 0 THEN 0 ELSE SizeOfFirst(n - 1) + TDReportFields[n][2]

\* unsafe.Offsetof(TDReport{}.f)
FieldOffset(f) == SizeOfFirst(FieldIndex(f) - 1)

\* unsafe.Sizeof(TDReport{})
SizeofTDReport == SizeOfFirst(Len(TDReportFields))

\* The fields printRTMRValues reads, in the order it reads them.
RtmrFields == <<"Rtmr0", "Rtmr1", "Rtmr2", "Rtmr3">>
MrFields == <<"MrTd", "MrConfigId", "MrOwner", "MrOwnerConfig">>
PrintedFields == RtmrFields \o MrFields

\* Literals of extractTDReportFromRawQuote.
HeaderLen == 48
QuoteMinLen == 632
TDReportLen == 584

(***************************************************************************)
(* Inputs: quote files.                                                     *)
(***************************************************************************)
\* Lengths around the two boundaries of the raw path: the 632-byte minimum and
\* the end of the struct laid over the buffer at offset 48.
QuoteLens ==
    {0, 1, QuoteMinLen - 1, QuoteMinLen, QuoteMinLen + 1,
     HeaderLen + SizeofTDReport - 1}
    \cup {HeaderLen + SizeofTDReport + k : k \in 0..MaxTail}

\* Byte at 0-based index i of a file with the given content pattern.
\*   "zeros": every byte 0
\*   "ramp" : no byte 0, neighbours differ
\*   "last" : 0 except the last byte of the Rtmr1 and Rtmr3 ranges
\*   "pb"   : ramp behind the byte 0x12, a protobuf tag (field 2, length-delimited)
\*   "v4"   : ramp behind the bytes 04 00, the version field of a raw v4 quote
PatternByte(pat, i) ==
    CASE pat = "zeros" -> 0
      [] pat = "ramp"  -> (i % 255) + 1
      [] pat = "last"  ->
            IF i \in {HeaderLen + FieldOffset("Rtmr1") + 47,
                      HeaderLen + FieldOffset("Rtmr3") + 47}
            THEN 1 ELSE 0
      [] pat = "pb"    -> IF i = 0 THEN 18 ELSE (i % 255) + 1
      [] pat = "v4"    -> IF i = 0 THEN 4 ELSE IF i = 1 THEN 0 ELSE (i % 255) + 1

RawPatterns == {"zeros", "ramp", "last"}

\* A file is kept as its length and its content pattern.  Patterns that give
\* the same bytes at a length are one file: "zeros" stands for it.
PatternOf(n, pat) ==
    IF \A i \in 0..(n - 1) : PatternByte(pat, i) = 0 THEN "zeros" ELSE pat

QuoteFiles ==
    {[len |-> n, pat |-> PatternOf(n, pat)] : n \in QuoteLens, pat \in RawPatterns}
    \cup {[len |-> n, pat |-> "pb"] : n \in {1, QuoteMinLen}}
    \cup {[len |-> n, pat |-> "v4"] : n \in {QuoteMinLen, HeaderLen + SizeofTDReport}}

NoData == [len |-> 0, pat |-> "zeros"]

\* data[i], 0-based
ByteAt(data, i) == PatternByte(data.pat, i)

\* data[lo:hi]
Slice(data, lo, hi) == [j \in 1..(hi - lo) |-> ByteAt(data, lo + j - 1)]

(***************************************************************************)
(* Decoded quotes (tdx.QuoteV4).  A nil sub-message is a FALSE flag; the    *)
(* signature and the attestation key are kept by their length, the only     *)
(* thing the code branches on.                                              *)
(***************************************************************************)
Fill(n, b) == [i \in 1..n |-> b]
LastOne == [i \in 1..48 |-> IF i = 48 THEN 1 ELSE 0]

RegisterValues == {Zeros(48), LastOne}

\* The rtmrs lists of a TDQuoteBody: four registers, fewer than four, and
\* entries that are not 48 bytes long.
RtmrLists ==
    [1..4 -> RegisterValues]
    \cup { <<LastOne, LastOne, LastOne>>,
           << <<7>>, Zeros(48), LastOne, Fill(49, 9)>> }

NoBody == [present |-> FALSE, rtmrs |-> <<>>, mrTd |-> <<>>, mrConfigId |-> <<>>,
           mrOwner |-> <<>>, mrOwnerConfig |-> <<>>]

Bodies ==
    { [present |-> TRUE, rtmrs |-> rs, mrTd |-> Fill(48, 17),
       mrConfigId |-> Fill(48, 34), mrOwner |-> Fill(48, 51),
       mrOwnerConfig |-> Fill(48, 68)] : rs \in RtmrLists }
    \cup { [NoBody EXCEPT !.present = TRUE] }

SigKeyLens == { <<64, 64>>, <<63, 64>>, <<64, 0>>, <<0, 0>> }

\* The zero value of tdx.QuoteV4: what proto.Unmarshal leaves for an empty input.
EmptyQuote == [header |-> FALSE, signedData |-> FALSE, sigLen |-> 0, keyLen |-> 0,
               body |-> NoBody]

Quotes ==
    { [header |-> h, signedData |-> TRUE, sigLen |-> sk[1], keyLen |-> sk[2], body |-> b] :
        h \in BOOLEAN, sk \in SigKeyLens, b \in Bodies \cup {NoBody} }
    \cup { [EmptyQuote EXCEPT !.header = h, !.body = b] :
             h \in BOOLEAN, b \in Bodies \cup {NoBody} }

\* proto.Unmarshal(quoteData, &quote): the quotes it can return; {} when it can
\* only fail.  Empty input is a valid encoding of the empty message; the first
\* byte is a tag, and a tag with field number 0 is rejected by the wire format.
UnmarshalResults(data) ==
    IF data.len = 0 THEN {EmptyQuote}
    ELSE IF ByteAt(data, 0) \div 8 = 0 THEN {}
    ELSE Quotes

\* abi.QuoteToProto(quoteData): the quotes it can return.  The first two bytes
\* are the little-endian quote version, and only version 4 is converted (to a
\* tdx.QuoteV4, so the type assertion of main holds whenever err is nil).
QuoteToProtoResults(data) ==
    IF data.len < 2 THEN {}
    ELSE IF ByteAt(data, 0) + 256 * ByteAt(data, 1) # 4 THEN {}
    ELSE Quotes

\* Whether proto.Unmarshal may fail on data.
UnmarshalMayFail(data) == data.len > 0

(***************************************************************************)
(* Output and call records.                                                 *)
(***************************************************************************)
Line(tag) == <<tag, 0, <<>>>>

Printed(tag) == \E k \in 1..Len(out) : out[k][1] = tag

Called(name) == \E k \in 1..Len(calls) : calls[k][1] = name

CalledWith(name, ok) == \E k \in 1..Len(calls) : calls[k] = <<name, ok>>

NoTDReport == [kind |-> "none", base |-> 0, fields |-> <<>>]

\* &TDReport{}
ZeroTDReport == [f \in FieldNames |-> Zeros(FieldSize(f))]

(***************************************************************************)
(* Pure parts of main.go.                                                   *)
(***************************************************************************)
\* Mutant of QuoteTooShort: the comparison written <=.
QuoteTooShortInclusive(data) == data.len <= QuoteMinLen

\* extractTDReportFromRawQuote: if len(quoteData) < 632
QuoteTooShort(data) == data.len < QuoteMinLen

\* Mutant of AllZeros: the loop stops one byte early.
AllZerosButLast(r) == \A j \in 1..(Len(r) - 1) : r[j] = 0

\* printRTMRValues: the allZeros loop over one register
AllZeros(r) == \A j \in 1..Len(r) : r[j] = 0

\* printRTMRValues: the line printed for register i
RtmrLine(i, r) ==
    IF AllZeros(r) THEN <<"RTMR uninitialized", i, <<>>>> ELSE <<"RTMR", i, Hex(r)>>

\* extractFromQuoteV4: the TDReport filled from the decoded body
TDReportFromBody(b) ==
    LET rs == b.rtmrs
        z == ZeroTDReport
        withRtmrs ==
            IF Len(rs) >= 4
            THEN [z EXCEPT !["Rtmr0"] = Copy(@, rs[1]), !["Rtmr1"] = Copy(@, rs[2]),
                           !["Rtmr2"] = Copy(@, rs[3]), !["Rtmr3"] = Copy(@, rs[4])]
            ELSE z
    IN [withRtmrs EXCEPT !["MrTd"] = Copy(@, b.mrTd),
                         !["MrConfigId"] = Copy(@, b.mrConfigId),
                         !["MrOwner"] = Copy(@, b.mrOwner),
                         !["MrOwnerConfig"] = Copy(@, b.mrOwnerConfig)]

\* Byte at 0-based address i of the memory that starts at &quoteData[0]; g is
\* what lies behind the slice's last byte.
MemAt(i, g) == IF i < quoteData.len THEN ByteAt(quoteData, i) ELSE g

\* The half-open address range of field f of the struct td points at.
ReadRange(td, f) ==
    <<td.base + FieldOffset(f), td.base + FieldOffset(f) + FieldSize(f)>>

\* tdReport.f, read through the pointer or from the struct
Field(td, f, g) ==
    IF td.kind = "struct" THEN td.fields[f]
    ELSE [j \in 1..FieldSize(f) |-> MemAt(td.base + FieldOffset(f) + j - 1, g)]

\* printRTMRValues: the values of the fields it reads
ReadFields(td, g) ==
    [f \in {PrintedFields[k] : k \in 1..Len(PrintedFields)} |-> Field(td, f, g)]

\* printRTMRValues: the value lines, registers first
ReportLines(vals) ==
    [k \in 1..8 |->
        IF k <= 4 THEN RtmrLine(k - 1, vals[RtmrFields[k]])
        ELSE <<MrFields[k - 4], 0, Hex(vals[MrFields[k - 4]])>>]

\* Bytes an out-of-bounds read can return.
GarbageBytes == {0, 170}

(***************************************************************************)
(* main.go, one action per step.                                            *)
(***************************************************************************)
\* log.Fatal / log.Fatalf / os.Exit(1) after printing msg
Fatal(msg) ==
    /\ out' = Append(out, Line(msg))
    /\ exitCode' = 1
    /\ pc' = "exited"

Goto(next, lines) ==
    /\ out' = out \o lines
    /\ pc' = next
    /\ UNCHANGED exitCode

\* main: the argument check
Main ==
    /\ tool = "inspector" /\ pc = "main"
    /\ IF argc # 2 THEN Fatal("Usage") ELSE Goto("ReadFile", <<Line("Reading TDX quote from")>>)
    /\ UNCHANGED <<tool, inspectorVars, replayVars>>

\* main: os.ReadFile
ReadFile ==
    /\ tool = "inspector" /\ pc = "ReadFile"
    /\ \/ /\ Fatal("Failed to read quote file")
          /\ UNCHANGED quoteData
       \/ /\ \E data \in QuoteFiles : quoteData' = data
          /\ Goto("Unmarshal", <<Line("Quote file size")>>)
    /\ UNCHANGED <<tool, argc, quote, tdReport, calls, reads, replayVars>>

\* Mutant of Unmarshal: the return after extractFromQuoteV4 is missing, so a
\* parsed buffer is handed to the next strategy as well.
UnmarshalNoReturn ==
    /\ tool = "inspector" /\ pc = "Unmarshal"
    /\ \/ /\ \E q \in UnmarshalResults(quoteData) : quote' = q
          /\ calls' = Append(calls, <<"proto.Unmarshal", TRUE>>)
          /\ Goto("QuoteToProto", <<Line("Detected protobuf QuoteV4 format")>>)
       \/ /\ UnmarshalMayFail(quoteData)
          /\ calls' = Append(calls, <<"proto.Unmarshal", FALSE>>)
          /\ Goto("QuoteToProto", <<>>)
          /\ UNCHANGED quote
    /\ UNCHANGED <<tool, argc, quoteData, tdReport, reads, replayVars>>

\* main: proto.Unmarshal, first strategy
Unmarshal ==
    /\ tool = "inspector" /\ pc = "Unmarshal"
    /\ \/ /\ \E q \in UnmarshalResults(quoteData) : quote' = q
          /\ calls' = Append(calls, <<"proto.Unmarshal", TRUE>>)
          /\ Goto("validateQuoteStructure", <<Line("Detected protobuf QuoteV4 format")>>)
       \/ /\ UnmarshalMayFail(quoteData)
          /\ calls' = Append(calls, <<"proto.Unmarshal", FALSE>>)
          /\ Goto("QuoteToProto", <<>>)
          /\ UNCHANGED quote
    /\ UNCHANGED <<tool, argc, quoteData, tdReport, reads, replayVars>>

\* main: abi.QuoteToProto, second strategy; on failure the fall to the third
QuoteToProto ==
    /\ tool = "inspector" /\ pc = "QuoteToProto"
    /\ \/ /\ \E q \in QuoteToProtoResults(quoteData) : quote' = q
          /\ calls' = Append(calls, <<"abi.QuoteToProto", TRUE>>)
          /\ Goto("validateQuoteStructure",
                  <<Line("Detected raw QuoteV4 format, converted to protobuf")>>)
       \/ /\ calls' = Append(calls, <<"abi.QuoteToProto", FALSE>>)
          /\ Goto("extractFromRawQuote",
                  <<Line("Detected raw quote format, attempting manual parsing...")>>)
          /\ UNCHANGED quote
    /\ UNCHANGED <<tool, argc, quoteData, tdReport, reads, replayVars>>

\* validateQuoteStructure up to the call of validateECDSASignature
ValidateQuoteStructure ==
    /\ tool = "inspector" /\ pc = "validateQuoteStructure"
    /\ LET head == <<Line("Quote Structure Validation:")>>
       IN IF ~quote.header
          THEN Goto("tdQuoteBody", head \o <<Line("No header found")>>)
          ELSE IF ~quote.signedData
          THEN Goto("tdQuoteBody",
                    head \o <<Line("Quote Version"), Line("No signed data found")>>)
          ELSE IF quote.sigLen = 64 /\ quote.keyLen = 64
          THEN Goto("validateECDSASignature",
                    head \o <<Line("Quote Version"), Line("Signature present"),
                              Line("ECDSA P-256 signature format detected")>>)
          ELSE Goto("showSignature",
                    head \o <<Line("Quote Version"), Line("Signature present"),
                              Line("Unexpected signature/key sizes")>>)
    /\ UNCHANGED <<tool, inspectorVars, replayVars>>

\* Mutant of ValidateECDSASignature: a key off the curve ends the run.
ValidateECDSASignatureFatal ==
    /\ tool = "inspector" /\ pc = "validateECDSASignature"
    /\ \E onCurve \in BOOLEAN :
         /\ calls' = Append(calls, <<"IsOnCurve", onCurve>>)
         /\ IF ~onCurve
            THEN Fatal("Public key is not on P-256 curve")
            ELSE Goto("createSignedPayload",
                      <<Line("Signature Validation (Offline Check):"), Line("Signature R"),
                        Line("Public Key X"), Line("Public key is valid P-256 point")>>)
    /\ UNCHANGED <<tool, argc, quoteData, quote, tdReport, reads, replayVars>>

\* Mutant of ValidateECDSASignature: the return after the curve check is
\* missing, so the payload is built and verified for a key off the curve.
ValidateECDSASignatureNoReturn ==
    /\ tool = "inspector" /\ pc = "validateECDSASignature"
    /\ \E onCurve \in BOOLEAN :
         /\ calls' = Append(calls, <<"IsOnCurve", onCurve>>)
         /\ Goto("createSignedPayload",
                 <<Line("Signature Validation (Offline Check):"), Line("Signature R"),
                   Line("Public Key X"),
                   Line(IF onCurve THEN "Public key is valid P-256 point"
                        ELSE "Public key is not on P-256 curve")>>)
    /\ UNCHANGED <<tool, argc, quoteData, quote, tdReport, reads, replayVars>>

\* validateECDSASignature: the length checks and the curve check
ValidateECDSASignature ==
    /\ tool = "inspector" /\ pc = "validateECDSASignature"
    /\ LET head == <<Line("Signature Validation (Offline Check):")>>
       IN IF quote.sigLen # 64
          THEN /\ Goto("showSignature", head \o <<Line("Invalid signature length")>>)
               /\ UNCHANGED calls
          ELSE IF quote.keyLen # 64
          THEN /\ Goto("showSignature",
                       head \o <<Line("Signature R"), Line("Invalid public key length")>>)
               /\ UNCHANGED calls
          ELSE \E onCurve \in BOOLEAN :
               /\ calls' = Append(calls, <<"IsOnCurve", onCurve>>)
               /\ IF ~onCurve
                  THEN Goto("showSignature",
                            head \o <<Line("Signature R"), Line("Public Key X"),
                                      Line("Public key is not on P-256 curve")>>)
                  ELSE Goto("createSignedPayload",
                            head \o <<Line("Signature R"), Line("Public Key X"),
                                      Line("Public key is valid P-256 point")>>)
    /\ UNCHANGED <<tool, argc, quoteData, quote, tdReport, reads, replayVars>>

\* createSignedPayload and the nil check on its result
CreateSignedPayload ==
    /\ tool = "inspector" /\ pc = "createSignedPayload"
    /\ LET entered == Append(calls, <<"createSignedPayload", TRUE>>)
       IN IF ~quote.header \/ ~quote.body.present
          THEN /\ calls' = entered
               /\ Goto("showSignature", <<Line("Could not create signed payload")>>)
          ELSE \E headerOk \in BOOLEAN, bodyOk \in BOOLEAN :
               IF ~headerOk
               THEN /\ bodyOk      \* the body is not encoded after a header error
                    /\ calls' = Append(entered, <<"abi.HeaderToAbiBytes", FALSE>>)
                    /\ Goto("showSignature",
                            <<Line("Warning: Could not convert header to ABI bytes"),
                              Line("Could not create signed payload")>>)
               ELSE /\ calls' = entered \o <<<<"abi.HeaderToAbiBytes", TRUE>>,
                                             <<"abi.TdQuoteBodyToAbiBytes", bodyOk>>>>
                    /\ IF ~bodyOk
                       THEN Goto("showSignature",
                                 <<Line("Warning: Could not convert TD quote body to ABI bytes"),
                                   Line("Could not create signed payload")>>)
                       ELSE Goto("Verify", <<Line("Signed payload length")>>)
    /\ UNCHANGED <<tool, argc, quoteData, quote, tdReport, reads, replayVars>>

\* Mutant of Verify: a failed verification ends the run with log.Fatal.
VerifyFatal ==
    /\ tool = "inspector" /\ pc = "Verify"
    /\ \E valid \in BOOLEAN :
         /\ calls' = Append(calls, <<"ecdsa.Verify", valid>>)
         /\ IF valid
            THEN Goto("showSignature",
                      <<Line("Signed data hash"), Line("Signature verification PASSED")>>)
            ELSE Fatal("Signature verification FAILED")
    /\ UNCHANGED <<tool, argc, quoteData, quote, tdReport, reads, replayVars>>

\* validateECDSASignature: sha256.Sum256 and ecdsa.Verify
Verify ==
    /\ tool = "inspector" /\ pc = "Verify"
    /\ \E valid \in BOOLEAN :
         /\ calls' = Append(calls, <<"ecdsa.Verify", valid>>)
         /\ IF valid
            THEN Goto("showSignature",
                      <<Line("Signed data hash"), Line("Signature verification PASSED")>>)
            ELSE Goto("showSignature",
                      <<Line("Signed data hash"), Line("Signature verification FAILED")>>)
    /\ UNCHANGED <<tool, argc, quoteData, quote, tdReport, reads, replayVars>>

\* validateQuoteStructure after the signature check: the hex dumps
ShowSignature ==
    /\ tool = "inspector" /\ pc = "showSignature"
    /\ Goto("tdQuoteBody",
            (IF quote.sigLen > 0 THEN <<Line("Signature")>> ELSE <<>>)
            \o (IF quote.keyLen > 0 THEN <<Line("Public Key")>> ELSE <<>>))
    /\ UNCHANGED <<tool, inspectorVars, replayVars>>

\* Mutant of ExtractFromQuoteV4: the nil check on the body is missing; the
\* getters of a nil message return nil, so the report is printed from zeros.
ExtractFromQuoteV4NoCheck ==
    /\ tool = "inspector" /\ pc = "tdQuoteBody"
    /\ tdReport' = [kind |-> "struct", base |-> 0,
                    fields |-> TDReportFromBody(quote.body)]
    /\ Goto("printRTMRValues", <<>>)
    /\ UNCHANGED <<tool, argc, quoteData, quote, calls, reads, replayVars>>

\* extractFromQuoteV4 after validateQuoteStructure
ExtractFromQuoteV4 ==
    /\ tool = "inspector" /\ pc = "tdQuoteBody"
    /\ IF ~quote.body.present
       THEN /\ Fatal("No TD Quote Body found in quote")
            /\ UNCHANGED tdReport
       ELSE /\ tdReport' = [kind |-> "struct", base |-> 0,
                            fields |-> TDReportFromBody(quote.body)]
            /\ Goto("printRTMRValues", <<>>)
    /\ UNCHANGED <<tool, argc, quoteData, quote, calls, reads, replayVars>>

\* extractFromRawQuote: verify.RawTdxQuote and the warning
ExtractFromRawQuote ==
    /\ tool = "inspector" /\ pc = "extractFromRawQuote"
    /\ \E ok \in BOOLEAN :
         /\ calls' = Append(calls, <<"verify.RawTdxQuote", ok>>)
         /\ Goto("extractTDReportFromRawQuote",
                 IF ok THEN <<>> ELSE <<Line("Warning: Quote verification failed")>>)
    /\ UNCHANGED <<tool, argc, quoteData, quote, tdReport, reads, replayVars>>

\* extractTDReportFromRawQuote and the error check of its caller
ExtractTDReportFromRawQuote ==
    /\ tool = "inspector" /\ pc = "extractTDReportFromRawQuote"
    /\ calls' = Append(calls, <<"extractTDReportFromRawQuote", ~QuoteTooShort(quoteData)>>)
    /\ IF QuoteTooShort(quoteData)
       THEN /\ Fatal("quote too short")
            /\ UNCHANGED tdReport
       ELSE IF QuoteMinLen - HeaderLen # TDReportLen
       THEN /\ Fatal("invalid TD Report size")
            /\ UNCHANGED tdReport
       ELSE /\ tdReport' = [kind |-> "ptr", base |-> HeaderLen, fields |-> <<>>]
            /\ Goto("printRTMRValues", <<>>)
    /\ UNCHANGED <<tool, argc, quoteData, quote, reads, replayVars>>

\* printRTMRValues.  Through a pointer into quoteData the struct covers
\* SizeofTDReport bytes from offset 48; what is read behind the slice is
\* whatever lies there (g), or the read faults when nothing is mapped there.
PrintRTMRValues ==
    /\ tool = "inspector" /\ pc = "printRTMRValues"
    /\ \E g \in GarbageBytes, mapped \in BOOLEAN :
         LET ranges == IF tdReport.kind = "ptr"
                       THEN {ReadRange(tdReport, PrintedFields[k]) : k \in 1..8}
                       ELSE {}
             oob == \E r \in ranges : r[2] > quoteData.len
         IN /\ oob \/ (g = 0 /\ mapped)
            /\ reads' = ranges
            /\ IF oob /\ ~mapped
               THEN /\ out' = out \o <<Line("Runtime TD Report RTMR Values:"),
                                       Line("unexpected fault address")>>
                    /\ exitCode' = 2
                    /\ pc' = "exited"
               ELSE \E vals \in {ReadFields(tdReport, g)} :
                        Goto("return",
                             <<Line("Runtime TD Report RTMR Values:")>>
                             \o ReportLines(vals)
                             \o <<Line("RTMR Meanings:")>>)
    /\ UNCHANGED <<tool, argc, quoteData, quote, tdReport, calls, replayVars>>

\* main returns
Return ==
    /\ tool = "inspector" /\ pc = "return"
    /\ exitCode' = 0
    /\ pc' = "exited"
    /\ UNCHANGED <<tool, inspectorVars, out, replayVars>>

(***************************************************************************)
(* The RTMR[1] replay script.  SHA-384 is an injective constructor: a       *)
(* digest is the record of what was hashed.                                 *)
(***************************************************************************)
\* def sha384(data)
sha384(data) == [sha384 |-> data]

\* rtmr + measurement: two 48-byte strings side by side
Concat(a, b) == <<a, b>>

\* def extend(rtmr, measurement)
extend(r, measurement) == [sha384 |-> Concat(r, measurement)]

\* Mutant of rstrip: at most one trailing newline is removed.
rstripOne(s) ==
    IF Len(s) > 0 /\ s[Len(s)] = 10 THEN SubSeq(s, 1, Len(s) - 1) ELSE s

\* bytes.rstrip(b'\n')
RECURSIVE rstrip(_)
rstrip(s) ==
    IF Len(s) > 0 /\ s[Len(s)] = 10 THEN rstrip(SubSeq(s, 1, Len(s) - 1)) ELSE s

\* bytes(48)
bytes48 == Zeros(48)

\* The python program as one function of the three file contents.
Replay(k, i, c) ==
    extend(extend(extend(bytes48, sha384(k)), sha384(i)), sha384(rstrip(c)))

\* File contents: "K" and newline bytes.
FileAlphabet == {75, 10}
FileContents == UNION {[1..n -> FileAlphabet] : n \in 0..MaxFileLen}
ImageContents == UNION {[1..n -> FileAlphabet] : n \in 0..MaxImageLen}

\* The lookup of kernel and initrd and the -f test
FindBootFiles ==
    /\ tool = "replay" /\ pc = "find"
    /\ IF ~found THEN Fatal("Kernel or initrd not found.")
       ELSE Goto("readKernel", <<Line("Using:")>>)
    /\ UNCHANGED <<tool, inspectorVars, replayVars>>

ReadKernel ==
    /\ tool = "replay" /\ pc = "readKernel"
    /\ kernel' = kernelFile
    /\ pc' = "readInitrd"
    /\ UNCHANGED <<tool, inspectorVars, out, exitCode, kernelFile, initrdFile,
                   cmdlineFile, found, initrd, cmdline, rtmr>>

ReadInitrd ==
    /\ tool = "replay" /\ pc = "readInitrd"
    /\ initrd' = initrdFile
    /\ pc' = "readCmdline"
    /\ UNCHANGED <<tool, inspectorVars, out, exitCode, kernelFile, initrdFile,
                   cmdlineFile, found, kernel, cmdline, rtmr>>

ReadCmdline ==
    /\ tool = "replay" /\ pc = "readCmdline"
    /\ cmdline' = rstrip(cmdlineFile)
    /\ pc' = "initRtmr"
    /\ UNCHANGED <<tool, inspectorVars, out, exitCode, kernelFile, initrdFile,
                   cmdlineFile, found, kernel, initrd, rtmr>>

InitRtmr ==
    /\ tool = "replay" /\ pc = "initRtmr"
    /\ rtmr' = bytes48
    /\ pc' = "extendKernel"
    /\ UNCHANGED <<tool, inspectorVars, out, exitCode, kernelFile, initrdFile,
                   cmdlineFile, found, kernel, initrd, cmdline>>

ExtendKernel ==
    /\ tool = "replay" /\ pc = "extendKernel"
    /\ rtmr' = extend(rtmr, sha384(kernel))
    /\ pc' = "extendInitrd"
    /\ UNCHANGED <<tool, inspectorVars, out, exitCode, kernelFile, initrdFile,
                   cmdlineFile, found, kernel, initrd, cmdline>>

ExtendInitrd ==
    /\ tool = "replay" /\ pc = "extendInitrd"
    /\ rtmr' = extend(rtmr, sha384(initrd))
    /\ pc' = "extendCmdline"
    /\ UNCHANGED <<tool, inspectorVars, out, exitCode, kernelFile, initrdFile,
                   cmdlineFile, found, kernel, initrd, cmdline>>

ExtendCmdline ==
    /\ tool = "replay" /\ pc = "extendCmdline"
    /\ rtmr' = extend(rtmr, sha384(cmdline))
    /\ pc' = "printRtmr"
    /\ UNCHANGED <<tool, inspectorVars, out, exitCode, kernelFile, initrdFile,
                   cmdlineFile, found, kernel, initrd, cmdline>>

PrintRtmr ==
    /\ tool = "replay" /\ pc = "printRtmr"
    /\ out' = Append(out, Line("RTMR[1] ="))
    /\ exitCode' = 0
    /\ pc' = "exited"
    /\ UNCHANGED <<tool, inspectorVars, replayVars>>

(***************************************************************************)
(* The specification.                                                       *)
(***************************************************************************)
Init ==
    /\ quoteData = NoData
    /\ quote = EmptyQuote
    /\ tdReport = NoTDReport
    /\ out = <<>>
    /\ calls = <<>>
    /\ reads = {}
    /\ exitCode = 0
    /\ kernel = <<>>
    /\ initrd = <<>>
    /\ cmdline = <<>>
    /\ rtmr = <<>>
    /\ \/ /\ tool = "inspector"
          /\ pc = "main"
          /\ argc \in 1..MaxArgc
          /\ found = FALSE
          /\ kernelFile = <<>> /\ initrdFile = <<>> /\ cmdlineFile = <<>>
       \/ /\ tool = "replay"
          /\ pc = "find"
          /\ argc = 1
          /\ found \in BOOLEAN
          /\ kernelFile \in ImageContents
          /\ initrdFile \in ImageContents
          /\ cmdlineFile \in FileContents

Next ==
    \/ Main
    \/ ReadFile
    \/ Unmarshal
    \/ QuoteToProto
    \/ ValidateQuoteStructure
    \/ ValidateECDSASignature
    \/ CreateSignedPayload
    \/ Verify
    \/ ShowSignature
    \/ ExtractFromQuoteV4
    \/ ExtractFromRawQuote
    \/ ExtractTDReportFromRawQuote
    \/ PrintRTMRValues
    \/ Return
    \/ FindBootFiles
    \/ ReadKernel
    \/ ReadInitrd
    \/ ReadCmdline
    \/ InitRtmr
    \/ ExtendKernel
    \/ ExtendInitrd
    \/ ExtendCmdline
    \/ PrintRtmr

Spec == Init /\ [][Next]_vars

\* Both tools are sequential programs that run to their exit.
FairSpec == Spec /\ WF_vars(Next)

(***************************************************************************)
(* Properties.                                                              *)
(***************************************************************************)
Inspector == tool = "inspector"

\* A structured strategy (protobuf parse or ABI conversion) produced the quote.
Structured == CalledWith("proto.Unmarshal", TRUE) \/ CalledWith("abi.QuoteToProto", TRUE)

RawPathCalls == {"verify.RawTdxQuote", "extractTDReportFromRawQuote"}
RawPathPcs == {"extractFromRawQuote", "extractTDReportFromRawQuote"}
RawPathEntered == (\E n \in RawPathCalls : Called(n)) \/ pc \in RawPathPcs

ValueTags == {"RTMR", "RTMR uninitialized", "MrTd", "MrConfigId", "MrOwner", "MrOwnerConfig"}
FatalTags == {"Usage", "Failed to read quote file", "No TD Quote Body found in quote",
              "quote too short", "invalid TD Report size", "unexpected fault address"}

\* Some measurement value has been printed.
ValuePrinted == \E k \in 1..Len(out) : out[k][1] \in ValueTags

\* The whole report has been printed: four register lines and the four Mr lines.
ReportPrinted ==
    /\ \A i \in 0..3 :
         \E k \in 1..Len(out) : out[k][1] \in {"RTMR", "RTMR uninitialized"} /\ out[k][2] = i
    /\ \A t \in {"MrTd", "MrConfigId", "MrOwner", "MrOwnerConfig"} : Printed(t)

CallIndex(name) == CHOOSE k \in 1..Len(calls) : calls[k][1] = name

\* C1: the decoding strategies run in the order protobuf parse, ABI conversion,
\* manual raw parsing, and the first success wins: after a successful protobuf
\* parse neither the ABI conversion nor the raw parser runs, after a successful
\* ABI conversion the raw parser does not run, and a buffer both structured
\* forms reject reaches the raw parser with no error raised on the way.
C1_StrictPriority ==
    Inspector =>
        /\ CalledWith("proto.Unmarshal", TRUE) =>
              ~Called("abi.QuoteToProto") /\ ~RawPathEntered /\ pc # "QuoteToProto"
        /\ CalledWith("abi.QuoteToProto", TRUE) => ~RawPathEntered
        /\ Called("abi.QuoteToProto") => calls[1] = <<"proto.Unmarshal", FALSE>>
        /\ RawPathEntered =>
              /\ Len(calls) >= 2
              /\ calls[1] = <<"proto.Unmarshal", FALSE>>
              /\ calls[2] = <<"abi.QuoteToProto", FALSE>>
        /\ (CalledWith("proto.Unmarshal", FALSE) /\ CalledWith("abi.QuoteToProto", FALSE)) =>
              /\ RawPathEntered
              /\ pc = "extractFromRawQuote" =>
                    \A k \in 1..Len(out) : out[k][1] \notin FatalTags

C1_Witness ==
    /\ Inspector
    /\ CalledWith("proto.Unmarshal", FALSE)
    /\ CalledWith("abi.QuoteToProto", FALSE)
    /\ Called("extractTDReportFromRawQuote")

Exited == pc = "exited"

ReadFailed == Printed("Failed to read quote file")

\* C2 as stated: a run whose buffer a structured strategy accepted, an empty
\* file included, never ends with exit code 1 (it ends with 0).
C2_DecodedExitsZero ==
    (Inspector /\ Exited /\ Structured) => exitCode = 0

\* C2 as amended: exit code 1 exactly when the argument count is wrong, the file
\* cannot be read, the structured quote has no TD quote body (an empty file
\* parses as such a quote), or the raw buffer is shorter than 632 bytes; a
\* structured quote with a body exits 0 whatever the signature check said.
C2_ExitCodes ==
    (Inspector /\ Exited) =>
        /\ exitCode = 1 <=>
              \/ argc # 2
              \/ ReadFailed
              \/ Structured /\ ~quote.body.present
              \/ Called("extractTDReportFromRawQuote") /\ quoteData.len < 632
        /\ (Structured /\ quote.body.present) => exitCode = 0

C2_Witness ==
    /\ Inspector /\ Exited
    /\ exitCode = 0
    /\ Printed("Signature verification FAILED")

\* C3: the signature check is never fatal.  Every structurally decoded quote
\* with a TD quote body ends with the four registers and the four Mr values
\* reported and exit code 0, however the signature sub-step ended; on the raw
\* path a failed verify.RawTdxQuote is followed by the extraction attempt.
C3_VerificationNeverFatal ==
    /\ (Inspector /\ pc = "validateQuoteStructure" /\ quote.body.present)
          ~> (Exited /\ exitCode = 0 /\ ReportPrinted)
    /\ (Inspector /\ CalledWith("verify.RawTdxQuote", FALSE))
          ~> Called("extractTDReportFromRawQuote")

C3_Witness ==
    /\ Inspector /\ Exited
    /\ Printed("Public key is not on P-256 curve")
    /\ ReportPrinted

\* C4: a raw buffer shorter than 632 bytes gets the quote-too-short error, no
\* TD Report, a fatal end and no measurement line; a buffer of 632 bytes or
\* more does not get that error.
C4_QuoteTooShort ==
    (Inspector /\ Called("extractTDReportFromRawQuote")) =>
        IF quoteData.len < 632
        THEN /\ CalledWith("extractTDReportFromRawQuote", FALSE)
             /\ Printed("quote too short")
             /\ tdReport = NoTDReport
             /\ Exited /\ exitCode = 1
             /\ ~ValuePrinted
             /\ reads = {}
        ELSE /\ CalledWith("extractTDReportFromRawQuote", TRUE)
             /\ ~Printed("quote too short")
             /\ tdReport.kind = "ptr"

C4_Witness ==
    /\ Inspector
    /\ quoteData.len = 631
    /\ Printed("quote too short")

\* The offset table of the TD Report, relative to the start of the report.
TableOffset(tag) ==
    CASE tag = "MrTd" -> 616
      [] tag = "MrConfigId" -> 664
      [] tag = "MrOwner" -> 712
      [] tag = "MrOwnerConfig" -> 760

TableRtmrOffset(i) == 808 + 48 * i

\* The 48 bytes of the buffer at report offset off, as printed.
TableBytes(off) == Slice(quoteData, 48 + off, 48 + off + 48)

\* C5: for every raw quote of 632 + k bytes, k >= 0, extraction succeeds and
\* every reported field is the byte range the offset table gives.
C5_FieldsFromOffsetTable ==
    /\ (Inspector /\ Called("extractTDReportFromRawQuote") /\ quoteData.len >= 632) =>
          tdReport.kind = "ptr"
    /\ (Inspector /\ tdReport.kind = "ptr" /\ ValuePrinted) =>
          /\ ReportPrinted
          /\ \A k \in 1..Len(out) :
               LET tag == out[k][1]
                   off == IF tag \in {"RTMR", "RTMR uninitialized"}
                          THEN TableRtmrOffset(out[k][2]) ELSE TableOffset(tag)
               IN tag \in ValueTags =>
                    /\ 48 + off + 48 <= quoteData.len
                    /\ IF tag = "RTMR uninitialized"
                       THEN TableBytes(off) = Zeros(48)
                       ELSE out[k][3] = Hex(TableBytes(off))

\* C10: raw-mode extraction reads only bytes of quoteData[48:632].
C10_ReadsInsideReport ==
    Inspector => \A r \in reads : r[1] >= 48 /\ r[2] <= 632

\* SHA-384 as the claim treats it: an injective function of its input.
H(x) == [sha384 |-> x]

\* A fold of three measurements into the zero register, written out.
Fold3(a, b, c) == H(<<H(<<H(<<Zeros(48), H(a)>>), H(b)>>), H(c)>>)

\* s is t without its trailing newline bytes, and nothing else is changed.
IsStripped(s, t) ==
    /\ Len(s) <= Len(t)
    /\ s = SubSeq(t, 1, Len(s))
    /\ \A j \in (Len(s) + 1)..Len(t) : t[j] = 10
    /\ Len(s) = 0 \/ s[Len(s)] # 10

Reorderings(a, b, c) ==
    {<<a, c, b>>, <<b, a, c>>, <<b, c, a>>, <<c, a, b>>, <<c, b, a>>}

\* C6: the replayer prints extend(extend(extend(Z, digest(kernel)),
\* digest(initrd)), digest(cmdline')) with cmdline' the command line without
\* its trailing newlines; with three distinct inputs every other order gives
\* another result, and newline bytes added to the command line change nothing.
C6_ReplayChain ==
    (tool = "replay" /\ Exited /\ exitCode = 0) =>
        /\ Printed("RTMR[1] =")
        /\ IsStripped(cmdline, cmdlineFile)
        /\ rtmr = Fold3(kernelFile, initrdFile, cmdline)
        /\ Cardinality({kernelFile, initrdFile, cmdlineFile}) = 3 =>
              \A p \in Reorderings(kernelFile, initrdFile, cmdlineFile) :
                  Replay(p[1], p[2], p[3]) # rtmr
        /\ Cardinality({kernelFile, initrdFile, cmdline}) = 3 =>
              \A p \in Reorderings(kernelFile, initrdFile, cmdline) :
                  Fold3(p[1], p[2], p[3]) # rtmr
        /\ \A n \in 1..2 :
              Replay(kernelFile, initrdFile, cmdlineFile \o Fill(n, 10)) = rtmr

C6_Witness ==
    /\ tool = "replay" /\ Exited /\ exitCode = 0
    /\ kernelFile = <<75>>
    /\ initrdFile = <<10>>
    /\ cmdlineFile = <<75, 10>>
    /\ cmdline = <<75>>

RegisterLines(i) ==
    {k \in 1..Len(out) : out[k][1] \in {"RTMR", "RTMR uninitialized"} /\ out[k][2] = i}

\* The bytes of register i are known from the state: a field of the struct,
\* or a range of the buffer that lies inside it.
RegisterKnown(i) ==
    \/ tdReport.kind = "struct"
    \/ tdReport.kind = "ptr" /\ ReadRange(tdReport, RtmrFields[i + 1])[2] <= quoteData.len

RegisterBytes(i) ==
    IF tdReport.kind = "struct" THEN tdReport.fields[RtmrFields[i + 1]]
    ELSE Slice(quoteData, ReadRange(tdReport, RtmrFields[i + 1])[1],
               ReadRange(tdReport, RtmrFields[i + 1])[2])

\* C8: each register is shown with the uninitialized marker if and only if all
\* 48 of its bytes are zero, and otherwise as the hex encoding of its 48
\* bytes; the verdict on one register does not depend on the other three.
C8_UninitializedMarker ==
    (Inspector /\ ValuePrinted) =>
        \A i \in 0..3 :
            /\ Cardinality(RegisterLines(i)) = 1
            /\ \A k \in RegisterLines(i) :
                 /\ out[k][1] = "RTMR" =>
                       /\ Len(out[k][3]) = 96
                       /\ \E d \in 1..96 : out[k][3][d] # 0
                       /\ \A d \in 1..96 : out[k][3][d] \in 0..15
                 /\ RegisterKnown(i) =>
                       /\ Len(RegisterBytes(i)) = 48
                       /\ out[k][1] = "RTMR uninitialized" <=>
                             \A j \in 1..48 : RegisterBytes(i)[j] = 0
                       /\ out[k][1] = "RTMR" =>
                             \A j \in 1..48 :
                                 16 * out[k][3][2 * j - 1] + out[k][3][2 * j]
                                     = RegisterBytes(i)[j]

C8_Witness ==
    /\ Inspector /\ Exited
    /\ tdReport.kind = "struct"
    /\ tdReport.fields["Rtmr3"] = LastOne
    /\ tdReport.fields["Rtmr0"] = Zeros(48)
    /\ \E k \in 1..Len(out) : out[k] = <<"RTMR", 3, Hex(LastOne)>>
    /\ \E k \in 1..Len(out) : out[k] = <<"RTMR uninitialized", 0, <<>>>>

Verdicts == {"Signature verification PASSED", "Signature verification FAILED"}

\* C9: ecdsa.Verify is called only after the length checks (64 and 64), the
\* curve check and the payload reconstruction have passed, in that order; a key
\* off the curve is reported and neither the payload nor the ECDSA check
\* follows; a failed reconstruction is not followed by the ECDSA check; and a
\* run reports at most one pass/fail verdict.
C9_VerifyOrder ==
    Inspector =>
        /\ Called("IsOnCurve") => quote.sigLen = 64 /\ quote.keyLen = 64
        /\ Called("createSignedPayload") =>
              /\ CalledWith("IsOnCurve", TRUE)
              /\ CallIndex("IsOnCurve") < CallIndex("createSignedPayload")
        /\ Called("ecdsa.Verify") =>
              /\ quote.sigLen = 64 /\ quote.keyLen = 64
              /\ quote.header /\ quote.body.present
              /\ CalledWith("IsOnCurve", TRUE)
              /\ CalledWith("abi.HeaderToAbiBytes", TRUE)
              /\ CalledWith("abi.TdQuoteBodyToAbiBytes", TRUE)
              /\ Printed("Signed payload length")
              /\ CallIndex("createSignedPayload") < CallIndex("ecdsa.Verify")
        /\ CalledWith("IsOnCurve", FALSE) =>
              /\ Printed("Public key is not on P-256 curve")
              /\ ~Called("createSignedPayload")
              /\ ~Called("ecdsa.Verify")
              /\ pc \notin {"createSignedPayload", "Verify"}
        /\ Printed("Could not create signed payload") =>
              ~Called("ecdsa.Verify") /\ pc # "Verify"
        /\ Cardinality({k \in 1..Len(out) : out[k][1] \in Verdicts}) <= 1
        /\ Cardinality({k \in 1..Len(calls) : calls[k][1] = "ecdsa.Verify"}) <= 1
        /\ (\E k \in 1..Len(out) : out[k][1] \in Verdicts) => Called("ecdsa.Verify")

C9_Witness ==
    /\ Inspector /\ Exited
    /\ CalledWith("IsOnCurve", FALSE)
    /\ Printed("Public key is not on P-256 curve")
    /\ ReportPrinted

====
